---- MODULE Spec2Model ----
(***************************************************************************)
(* Northwind PostgreSQL -> Snowflake migration.                            *)
(*                                                                         *)
(*   scripts/migrate_to_snowflake.py  main, migrate_table, create_views    *)
(*   scripts/verify_migration.py      verify_row_counts,                   *)
(*                                    verify_key_metrics, main             *)
(*                                                                         *)
(* The two databases are state: src is the PostgreSQL database, tgt the    *)
(* Snowflake tables, views the Snowflake view definitions.  One action is  *)
(* one statement the scripts execute; a statement either succeeds or       *)
(* raises, and an exception leaves through the enclosing finally blocks.   *)
(*                                                                         *)
(* Values.  A column value is NULL (the empty tuple) or Some(v).  A FLOAT  *)
(* is an exact decimal counted in units of 1/Scale, an INTEGER and a DATE  *)
(* (a day number) are integers, a text is a tuple naming it.               *)
(***************************************************************************)
EXTENDS Integers, Sequences, FiniteSets, TLC

\* ------------------------------------------------------------- bounds
\* Most rows a generated source table holds.
MaxRows == 2
\* Most runs of the migration in one behaviour.
MaxRuns == 2
\* Most order lines and most orders of an enumerated source.
MaxLines == 2
MaxOrders == 2

\* ------------------------------------------------------------- values
NULL == <<>>
Some(v) == <<v>>
IsNull(x) == x = NULL
Val(x) == x[1]

\* One unit of a FLOAT column is 1/Scale: 10.00 is 10 * Scale.
Scale == 100 * 100
\* 0.01, the smallest step of a price or a discount.
Cent == Scale \div 100

\* SQL arithmetic: NULL if an operand is NULL.
\* FLOAT * INTEGER
MulFI(a, n) == IF IsNull(a) \/ IsNull(n) THEN NULL ELSE Some(Val(a) * Val(n))
\* FLOAT * FLOAT
MulFF(a, b) == IF IsNull(a) \/ IsNull(b) THEN NULL ELSE Some((Val(a) * Val(b)) \div Scale)
\* FLOAT - FLOAT
SubFF(a, b) == IF IsNull(a) \/ IsNull(b) THEN NULL ELSE Some(Val(a) - Val(b))
\* SQL equality in a join predicate: never true on NULL.
SqlEq(a, b) == ~IsNull(a) /\ ~IsNull(b) /\ a = b

\* ------------------------------------------------------------- tables
\* A faulty variant of tables: the keys in sorted order.
tables_sorted == << "categories", "customers", "employees", "order_details",
                    "orders", "products", "shippers", "suppliers" >>

\* The keys of the dict main() iterates, in insertion order.
tables == << "categories", "customers", "employees", "suppliers",
             "shippers", "products", "orders", "order_details" >>

TableNames == { tables[k] : k \in 1..Len(tables) }

\* str.upper() on the table names.
upper(name) ==
    CASE name = "categories"    -> "CATEGORIES"
      [] name = "customers"     -> "CUSTOMERS"
      [] name = "employees"     -> "EMPLOYEES"
      [] name = "suppliers"     -> "SUPPLIERS"
      [] name = "shippers"      -> "SHIPPERS"
      [] name = "products"      -> "PRODUCTS"
      [] name = "orders"        -> "ORDERS"
      [] name = "order_details" -> "ORDER_DETAILS"

TargetNames == { upper(n) : n \in TableNames }

ViewNames == { "ORDER_DETAILS_VIEW", "PRODUCT_VIEW" }

\* ------------------------------------------------------------- names
\* An identifier is its letters (written here in capitals) and the casing
\* it is spelled in.
Casings == { "lower", "upper", "mixed" }
Name(id, case) == [ id |-> id, case |-> case ]

\* An unquoted identifier of a Snowflake statement is stored in upper case.
Unquoted(id) == Name(id, "upper")

SeqToSet(s) == { s[j] : j \in 1..Len(s) }

\* A faulty variant of orders_columns: SHIP_VIA is left out.
orders_columns_without_ship_via ==
    << "ORDER_ID", "CUSTOMER_ID", "EMPLOYEE_ID", "ORDER_DATE",
       "REQUIRED_DATE", "SHIPPED_DATE", "FREIGHT", "SHIP_NAME",
       "SHIP_ADDRESS", "SHIP_CITY", "SHIP_REGION", "SHIP_POSTAL_CODE",
       "SHIP_COUNTRY" >>

\* The columns of CREATE TABLE ORDERS.
orders_columns ==
    << "ORDER_ID", "CUSTOMER_ID", "EMPLOYEE_ID", "ORDER_DATE",
       "REQUIRED_DATE", "SHIPPED_DATE", "SHIP_VIA", "FREIGHT", "SHIP_NAME",
       "SHIP_ADDRESS", "SHIP_CITY", "SHIP_REGION", "SHIP_POSTAL_CODE",
       "SHIP_COUNTRY" >>

\* The values of the dict main() iterates: the table and the columns, in
\* order, of each CREATE TABLE statement.
create_sql(name) ==
    CASE name = "categories" ->
           [ table |-> "CATEGORIES",
             columns |-> << "CATEGORY_ID", "CATEGORY_NAME", "DESCRIPTION",
                            "PICTURE" >> ]
      [] name = "customers" ->
           [ table |-> "CUSTOMERS",
             columns |-> << "CUSTOMER_ID", "COMPANY_NAME", "CONTACT_NAME",
                            "CONTACT_TITLE", "ADDRESS", "CITY", "REGION",
                            "POSTAL_CODE", "COUNTRY", "PHONE", "FAX" >> ]
      [] name = "employees" ->
           [ table |-> "EMPLOYEES",
             columns |-> << "EMPLOYEE_ID", "LAST_NAME", "FIRST_NAME",
                            "TITLE", "TITLE_OF_COURTESY", "BIRTH_DATE",
                            "HIRE_DATE", "ADDRESS", "CITY", "REGION",
                            "POSTAL_CODE", "COUNTRY", "HOME_PHONE",
                            "EXTENSION", "PHOTO", "NOTES", "REPORTS_TO",
                            "PHOTO_PATH" >> ]
      [] name = "suppliers" ->
           [ table |-> "SUPPLIERS",
             columns |-> << "SUPPLIER_ID", "COMPANY_NAME", "CONTACT_NAME",
                            "CONTACT_TITLE", "ADDRESS", "CITY", "REGION",
                            "POSTAL_CODE", "COUNTRY", "PHONE", "FAX",
                            "HOMEPAGE" >> ]
      [] name = "shippers" ->
           [ table |-> "SHIPPERS",
             columns |-> << "SHIPPER_ID", "COMPANY_NAME", "PHONE" >> ]
      [] name = "products" ->
           [ table |-> "PRODUCTS",
             columns |-> << "PRODUCT_ID", "PRODUCT_NAME", "SUPPLIER_ID",
                            "CATEGORY_ID", "QUANTITY_PER_UNIT", "UNIT_PRICE",
                            "UNITS_IN_STOCK", "UNITS_ON_ORDER",
                            "REORDER_LEVEL", "DISCONTINUED" >> ]
      [] name = "orders" ->
           [ table |-> "ORDERS", columns |-> orders_columns ]
      [] name = "order_details" ->
           [ table |-> "ORDER_DETAILS",
             columns |-> << "ORDER_ID", "PRODUCT_ID", "UNIT_PRICE",
                            "QUANTITY", "DISCOUNT" >> ]

\* The columns of the target table t as its CREATE TABLE statement names
\* them, none if no statement creates t.
TableColumns(t) ==
    UNION { { Unquoted(c) : c \in SeqToSet(create_sql(n).columns) } :
              n \in { x \in TableNames : create_sql(x).table = t } }

\* The column names SELECT * returns from the source table: the columns of
\* the table in the casing of the source.
SourceColumns(name, case) ==
    { Name(c, case) : c \in SeqToSet(create_sql(name).columns) }

\* The columns <table alias>.<COLUMN> the definition of a view names, in
\* its select list and its join predicates, each with the table of its
\* alias.
Ref(t, c) == [ table |-> t, column |-> Unquoted(c) ]

ViewRefs(v) ==
    IF v = "ORDER_DETAILS_VIEW"
    THEN { Ref("ORDER_DETAILS", c) :
             c \in { "ORDER_ID", "PRODUCT_ID", "UNIT_PRICE", "QUANTITY",
                     "DISCOUNT" } }
         \cup { Ref("ORDERS", c) :
             c \in { "ORDER_DATE", "SHIPPED_DATE", "CUSTOMER_ID",
                     "EMPLOYEE_ID", "SHIP_VIA", "ORDER_ID" } }
         \cup { Ref("CUSTOMERS", c) :
             c \in { "COMPANY_NAME", "CONTACT_NAME", "CONTACT_TITLE", "CITY",
                     "COUNTRY", "CUSTOMER_ID" } }
         \cup { Ref("EMPLOYEES", c) :
             c \in { "LAST_NAME", "FIRST_NAME", "TITLE", "HIRE_DATE", "CITY",
                     "EMPLOYEE_ID" } }
         \cup { Ref("SHIPPERS", c) : c \in { "COMPANY_NAME", "SHIPPER_ID" } }
         \cup { Ref("PRODUCTS", c) :
             c \in { "PRODUCT_NAME", "CATEGORY_ID", "PRODUCT_ID" } }
         \cup { Ref("CATEGORIES", c) :
             c \in { "CATEGORY_NAME", "CATEGORY_ID" } }
    ELSE { Ref("PRODUCTS", c) :
             c \in { "PRODUCT_ID", "PRODUCT_NAME", "SUPPLIER_ID",
                     "CATEGORY_ID", "UNIT_PRICE", "UNITS_IN_STOCK",
                     "UNITS_ON_ORDER" } }
         \cup { Ref("CATEGORIES", c) :
             c \in { "CATEGORY_NAME", "DESCRIPTION", "CATEGORY_ID" } }

\* ------------------------------------------------------------- rows
\* The columns the views read, per table (the other columns are carried
\* along by SELECT * and the bulk load and are not read again).
Text(col, k) == Some(<<col, k>>)

CategoryRow(k) ==
    [ CATEGORY_ID |-> Some(k), CATEGORY_NAME |-> Text("CATEGORY_NAME", k),
      DESCRIPTION |-> Text("DESCRIPTION", k) ]

CustomerRow(k) ==
    [ CUSTOMER_ID |-> Some(k), COMPANY_NAME |-> Text("COMPANY_NAME", k),
      CONTACT_NAME |-> Text("CONTACT_NAME", k),
      CONTACT_TITLE |-> Text("CONTACT_TITLE", k),
      CITY |-> Text("CITY", k), COUNTRY |-> Text("COUNTRY", k) ]

EmployeeRow(k) ==
    [ EMPLOYEE_ID |-> Some(k), LAST_NAME |-> Text("LAST_NAME", k),
      FIRST_NAME |-> Text("FIRST_NAME", k), TITLE |-> Text("TITLE", k),
      HIRE_DATE |-> Some(k), CITY |-> Text("CITY", k) ]

SupplierRow(k) ==
    [ SUPPLIER_ID |-> Some(k), COMPANY_NAME |-> Text("COMPANY_NAME", k) ]

ShipperRow(k) ==
    [ SHIPPER_ID |-> Some(k), COMPANY_NAME |-> Text("COMPANY_NAME", k) ]

ProductRow(k, cat) ==
    [ PRODUCT_ID |-> Some(k), PRODUCT_NAME |-> Text("PRODUCT_NAME", k),
      SUPPLIER_ID |-> Some(k), CATEGORY_ID |-> cat,
      UNIT_PRICE |-> Some(k * 10 * Scale),
      UNITS_IN_STOCK |-> Some(k), UNITS_ON_ORDER |-> Some(0) ]

OrderRow(k, cust, emp, via, odate, sdate) ==
    [ ORDER_ID |-> Some(k), CUSTOMER_ID |-> cust, EMPLOYEE_ID |-> emp,
      SHIP_VIA |-> via, ORDER_DATE |-> odate, SHIPPED_DATE |-> sdate ]

OrderDetailRow(o, p, price, qty, disc) ==
    [ ORDER_ID |-> o, PRODUCT_ID |-> p, UNIT_PRICE |-> price,
      QUANTITY |-> qty, DISCOUNT |-> disc ]

\* ---------------------------------------------------- generated sources
\* Row k of a generated source table.  Order k is shipped only if k is
\* even; order line k belongs to order k and product k, costs k * 10.00,
\* has quantity 5 and discount 0.10.
GenRow(name, k) ==
    CASE name = "categories"    -> CategoryRow(k)
      [] name = "customers"     -> CustomerRow(k)
      [] name = "employees"     -> EmployeeRow(k)
      [] name = "suppliers"     -> SupplierRow(k)
      [] name = "shippers"      -> ShipperRow(k)
      [] name = "products"      -> ProductRow(k, Some(k))
      [] name = "orders"        ->
            OrderRow(k, Some(k), Some(k), Some(k), Some(k),
                     IF k % 2 = 0 THEN Some(k + 3) ELSE NULL)
      [] name = "order_details" ->
            OrderDetailRow(Some(k), Some(k), Some(k * 10 * Scale), Some(5),
                           Some(10 * Cent))

TableIndex(name) == CHOOSE k \in 1..Len(tables) : tables[k] = name

\* The generated source database number n: table number k of the order
\* holds (n + k) mod (MaxRows + 1) rows, so that the tables of one database
\* differ in size and some order lines have no order, product or category.
GenCount(n, name) == (n + TableIndex(name)) % (MaxRows + 1)

GenDB(n) ==
    [ name \in TableNames |->
        [ k \in 1..GenCount(n, name) |-> GenRow(name, k) ] ]

SourceDBs == { GenDB(n) : n \in 0..MaxRows }

\* A target table: absent, or existing with rows.
Absent == [ exists |-> FALSE, rows |-> <<>> ]
Table(rows) == [ exists |-> TRUE, rows |-> rows ]

\* The target as an earlier complete run over database db left it.
LoadedFrom(db) == [ t \in TargetNames |->
    Table(db[CHOOSE n \in TableNames : upper(n) = t]) ]

NoTables == [ t \in TargetNames |-> Absent ]
EmptyTables == [ t \in TargetNames |-> Table(<<>>) ]
NoViews == [ v \in ViewNames |-> FALSE ]
AllViews == [ v \in ViewNames |-> TRUE ]

\* --------------------------------------------------------------- views
RECURSIVE Flatten(_)
Flatten(ss) == IF ss = <<>> THEN <<>> ELSE Head(ss) \o Flatten(Tail(ss))

\* L JOIN R r ON l.<la>.<lcol> = r.<rcol>: one row per pair of matching
\* rows, the row of R under the alias ra.
InnerJoin(L, la, lcol, R, ra, rcol) ==
    Flatten([ j \in 1..Len(L) |->
        LET m == SelectSeq(R, LAMBDA r : SqlEq(L[j][la][lcol], r[rcol]))
        IN  [ a \in 1..Len(m) |-> [ L[j] EXCEPT ![ra] = m[a] ] ] ])

\* L LEFT JOIN R r ON l.<la>.<lcol> = r.<rcol>: a row of L without a match
\* is kept once, with the columns of R null.
LeftJoin(L, la, lcol, R, ra, rcol, nullRow) ==
    Flatten([ j \in 1..Len(L) |->
        LET m == SelectSeq(R, LAMBDA r : SqlEq(L[j][la][lcol], r[rcol]))
        IN  IF m = <<>> THEN << [ L[j] EXCEPT ![ra] = nullRow ] >>
            ELSE [ a \in 1..Len(m) |-> [ L[j] EXCEPT ![ra] = m[a] ] ] ])

NullOrder ==
    [ ORDER_ID |-> NULL, CUSTOMER_ID |-> NULL, EMPLOYEE_ID |-> NULL,
      SHIP_VIA |-> NULL, ORDER_DATE |-> NULL, SHIPPED_DATE |-> NULL ]
NullCustomer ==
    [ CUSTOMER_ID |-> NULL, COMPANY_NAME |-> NULL, CONTACT_NAME |-> NULL,
      CONTACT_TITLE |-> NULL, CITY |-> NULL, COUNTRY |-> NULL ]
NullEmployee ==
    [ EMPLOYEE_ID |-> NULL, LAST_NAME |-> NULL, FIRST_NAME |-> NULL,
      TITLE |-> NULL, HIRE_DATE |-> NULL, CITY |-> NULL ]
NullShipper == [ SHIPPER_ID |-> NULL, COMPANY_NAME |-> NULL ]
NullProduct ==
    [ PRODUCT_ID |-> NULL, PRODUCT_NAME |-> NULL, SUPPLIER_ID |-> NULL,
      CATEGORY_ID |-> NULL, UNIT_PRICE |-> NULL, UNITS_IN_STOCK |-> NULL,
      UNITS_ON_ORDER |-> NULL ]
NullCategory ==
    [ CATEGORY_ID |-> NULL, CATEGORY_NAME |-> NULL, DESCRIPTION |-> NULL ]

\* The calculated columns of ORDER_DETAILS_VIEW.
\* (od.UNIT_PRICE * od.QUANTITY) AS GROSS_REVENUE
GrossRevenue(od) == MulFI(od.UNIT_PRICE, od.QUANTITY)
\* A faulty variant of DiscountAmount: the quantity is left out.
DiscountAmountPerUnit(od) == MulFF(od.UNIT_PRICE, od.DISCOUNT)

\* (od.UNIT_PRICE * od.QUANTITY * od.DISCOUNT) AS DISCOUNT_AMOUNT
DiscountAmount(od) == MulFF(MulFI(od.UNIT_PRICE, od.QUANTITY), od.DISCOUNT)
\* A faulty variant of NetRevenue: the discount rate is subtracted, not the amount.
NetRevenueMinusRate(od) ==
    SubFF(MulFI(od.UNIT_PRICE, od.QUANTITY), od.DISCOUNT)

\* (od.UNIT_PRICE * od.QUANTITY) - (od.UNIT_PRICE * od.QUANTITY * od.DISCOUNT)
NetRevenue(od) ==
    SubFF(MulFI(od.UNIT_PRICE, od.QUANTITY),
          MulFF(MulFI(od.UNIT_PRICE, od.QUANTITY), od.DISCOUNT))
\* DATEDIFF(day, o.ORDER_DATE, o.SHIPPED_DATE)
DaysToShip(o) ==
    IF IsNull(o.ORDER_DATE) \/ IsNull(o.SHIPPED_DATE) THEN NULL
    ELSE Some(Val(o.SHIPPED_DATE) - Val(o.ORDER_DATE))

\* A faulty variant of OrderDetailsJoinOrders: a left join keeps the lines without order.
OrderDetailsLeftJoinOrders(L, R) ==
    LeftJoin(L, "od", "ORDER_ID", R, "o", "ORDER_ID", NullOrder)

\* FROM ORDER_DETAILS od JOIN ORDERS o ON od.ORDER_ID = o.ORDER_ID
OrderDetailsJoinOrders(L, R) ==
    InnerJoin(L, "od", "ORDER_ID", R, "o", "ORDER_ID")

\* The FROM clause of ORDER_DETAILS_VIEW over the tables T: one record of
\* joined rows (od, o, c, e, s, p, cat) per row of the join.
OrderDetailsFrom(T) ==
    LET od0 == [ j \in 1..Len(T["ORDER_DETAILS"].rows) |->
                   [ od |-> T["ORDER_DETAILS"].rows[j], o |-> NullOrder,
                     c |-> NullCustomer, e |-> NullEmployee,
                     s |-> NullShipper, p |-> NullProduct,
                     cat |-> NullCategory ] ]
        j1 == OrderDetailsJoinOrders(od0, T["ORDERS"].rows)
        j2 == LeftJoin(j1, "o", "CUSTOMER_ID", T["CUSTOMERS"].rows,
                       "c", "CUSTOMER_ID", NullCustomer)
        j3 == LeftJoin(j2, "o", "EMPLOYEE_ID", T["EMPLOYEES"].rows,
                       "e", "EMPLOYEE_ID", NullEmployee)
        j4 == LeftJoin(j3, "o", "SHIP_VIA", T["SHIPPERS"].rows,
                       "s", "SHIPPER_ID", NullShipper)
        j5 == LeftJoin(j4, "od", "PRODUCT_ID", T["PRODUCTS"].rows,
                       "p", "PRODUCT_ID", NullProduct)
    IN  LeftJoin(j5, "p", "CATEGORY_ID", T["CATEGORIES"].rows,
                 "cat", "CATEGORY_ID", NullCategory)

\* The SELECT list of ORDER_DETAILS_VIEW on one row of the join.
OrderDetailsSelect(j) ==
    [ ORDER_ID |-> j.od.ORDER_ID, PRODUCT_ID |-> j.od.PRODUCT_ID,
      UNIT_PRICE |-> j.od.UNIT_PRICE, QUANTITY |-> j.od.QUANTITY,
      DISCOUNT |-> j.od.DISCOUNT,
      ORDER_DATE |-> j.o.ORDER_DATE, SHIPPED_DATE |-> j.o.SHIPPED_DATE,
      CUSTOMER_ID |-> j.o.CUSTOMER_ID, EMPLOYEE_ID |-> j.o.EMPLOYEE_ID,
      SHIP_VIA |-> j.o.SHIP_VIA,
      CUSTOMER_COMPANY |-> j.c.COMPANY_NAME,
      CUSTOMER_CONTACT |-> j.c.CONTACT_NAME,
      CUSTOMER_TITLE |-> j.c.CONTACT_TITLE,
      CUSTOMER_CITY |-> j.c.CITY, CUSTOMER_COUNTRY |-> j.c.COUNTRY,
      EMPLOYEE_LAST_NAME |-> j.e.LAST_NAME, EMPLOYEE_NAME |-> j.e.FIRST_NAME,
      EMPLOYEE_TITLE |-> j.e.TITLE, HIRE_DATE |-> j.e.HIRE_DATE,
      EMPLOYEE_CITY |-> j.e.CITY,
      SHIPPING_COMPANY |-> j.s.COMPANY_NAME,
      PRODUCT_NAME |-> j.p.PRODUCT_NAME, CATEGORY_ID |-> j.p.CATEGORY_ID,
      CATEGORY_NAME |-> j.cat.CATEGORY_NAME,
      GROSS_REVENUE |-> GrossRevenue(j.od),
      DISCOUNT_AMOUNT |-> DiscountAmount(j.od),
      NET_REVENUE |-> NetRevenue(j.od),
      DAYS_TO_SHIP |-> DaysToShip(j.o) ]

\* SELECT * FROM ORDER_DETAILS_VIEW over the tables T.
OrderDetailsView(T) ==
    LET f == OrderDetailsFrom(T)
    IN  [ j \in 1..Len(f) |-> OrderDetailsSelect(f[j]) ]

\* FROM PRODUCTS p LEFT JOIN CATEGORIES c ON p.CATEGORY_ID = c.CATEGORY_ID
ProductFrom(T) ==
    LeftJoin([ j \in 1..Len(T["PRODUCTS"].rows) |->
                 [ p |-> T["PRODUCTS"].rows[j], c |-> NullCategory ] ],
             "p", "CATEGORY_ID", T["CATEGORIES"].rows,
             "c", "CATEGORY_ID", NullCategory)

\* The SELECT list of PRODUCT_VIEW on one row of the join.
ProductSelect(j) ==
    [ PRODUCT_ID |-> j.p.PRODUCT_ID, PRODUCT_NAME |-> j.p.PRODUCT_NAME,
      SUPPLIER_ID |-> j.p.SUPPLIER_ID, CATEGORY_ID |-> j.p.CATEGORY_ID,
      UNIT_PRICE |-> j.p.UNIT_PRICE, UNITS_IN_STOCK |-> j.p.UNITS_IN_STOCK,
      UNITS_ON_ORDER |-> j.p.UNITS_ON_ORDER,
      CATEGORY_NAME |-> j.c.CATEGORY_NAME,
      CATEGORY_DESCRIPTION |-> j.c.DESCRIPTION ]

\* SELECT * FROM PRODUCT_VIEW over the tables T.
ProductView(T) ==
    LET f == ProductFrom(T)
    IN  [ j \in 1..Len(f) |-> ProductSelect(f[j]) ]

VARIABLES
    src,        \* PostgreSQL: table name -> rows
    src_case,   \* PostgreSQL: the casing of the column names it returns
    tgt,        \* Snowflake: TABLE NAME -> [exists, rows]
    views,      \* Snowflake: VIEW NAME -> defined or not
    pc,         \* migration main(): the statement to execute next
    i,          \* migration main(): index in tables of the current table
    df,         \* migrate_table: the DataFrame read from PostgreSQL
    df_columns, \* migrate_table: df.columns, the DataFrame's column names
    nrows,      \* migrate_table: the row count write_pandas returned
    ret,        \* migrate_table: its return value
    exc,        \* migration main(): an exception is propagating
    pg_conn,    \* migration main(): "none", "open", "closed"
    sf_conn,    \* migration main(): "none", "open", "closed"
    log,        \* the statements of this run, in execution order
    runs,       \* the number of runs of the migration started
    before,     \* history: the target table's row count when migrate_table
                \* was entered, -1 if the table was absent
    vpc,        \* verification main(): the statement to execute next
    vi,         \* verify_row_counts: index in rc_tables of the current table
    all_match,  \* verify_row_counts: its local all_match
    row_match,  \* verification main(): what verify_row_counts returned
    pg_df,      \* verify_key_metrics: the PostgreSQL aggregates
    sf_df,      \* verify_key_metrics: the Snowflake aggregates
    out,        \* verification: the lines printed, in order
    verr,       \* verification: the exception that ended it, or "none"
    exit_status,\* verification: the process exit status, -1 while running
    apc,        \* dashboard main(): the statement to execute next
    page,       \* dashboard main(): the page selected in the sidebar
    app_df,     \* dashboard main(): the DataFrame load_data returned
    filters,    \* dashboard main(): what render_sidebar_filters returned
    filtered,   \* overview_page: the rows apply_filters kept
    avg_days_ship, \* overview_page: its local avg_days_ship
    kpi6        \* overview_page: the text of the metric "Avg Days to Ship"

verVars == << vpc, vi, all_match, row_match, pg_df, sf_df, out, verr,
             exit_status >>

migVars == << pc, i, df, df_columns, nrows, ret, exc, pg_conn, sf_conn, log, runs,
             before >>

appVars == << apc, page, app_df, filters, filtered, avg_days_ship, kpi6 >>

vars == << src, src_case, tgt, views, migVars, verVars, appVars >>

\* Python's None.
None == "None"

\* No aggregates read yet.
NoMetrics ==
    [ gross_revenue |-> NULL, discount |-> NULL, net_revenue |-> NULL,
      orders |-> NULL, total_quantity |-> NULL ]

Stmt(op, obj, ok) == [ op |-> op, obj |-> obj, ok |-> ok ]

\* ------------------------------------------------- target statements
\* DROP TABLE IF EXISTS <name>
DropTableIfExists(T, name) == [ T EXCEPT ![name] = Absent ]

\* CREATE TABLE <name> (...): the table exists and is empty.
CreateTable(T, name) == [ T EXCEPT ![name] = Table(<<>>) ]

\* A faulty variant of AppendRows: every row is written, also by a load
\* that fails.
AppendRowsAll(T, name, frame, n) == [ T EXCEPT ![name].rows = @ \o frame ]

\* write_pandas appends the n first rows of the DataFrame to the table.
AppendRows(T, name, frame, n) ==
    [ T EXCEPT ![name].rows = @ \o SubSeq(frame, 1, n) ]

\* A faulty variant of FrameToWrite: only the first row is written.
FrameHead(frame) == IF frame = <<>> THEN <<>> ELSE << frame[1] >>

\* The rows write_pandas is given: the whole DataFrame.
FrameToWrite(frame) == frame

\* A faulty variant of StepAfter: the table is created without the drop.
StepAfterSkipsDrop(step) ==
    CASE step = "read"   -> "create"
      [] step = "drop"   -> "create"
      [] step = "create" -> "write"

\* The statement of migrate_table that follows the statement step.
StepAfter(step) ==
    CASE step = "read"   -> "drop"
      [] step = "drop"   -> "create"
      [] step = "create" -> "write"

\* A faulty variant of LoopExhausted: the loop stops one table early.
LoopExhaustedEarly(k) == k >= Len(tables)

\* The for loop over tables.items() is exhausted.
LoopExhausted(k) == k > Len(tables)

\* The statement main() executes after table number k - 1 has returned.
AfterTable(k) == IF LoopExhausted(k) THEN "view_od" ELSE "read"

\* The base tables a view's definition names.
ViewTables(v) == { r.table : r \in ViewRefs(v) }

\* CREATE OR REPLACE VIEW compiles only over existing tables that have the
\* columns it names.
ViewCompiles(T, v) ==
    \A r \in ViewRefs(v) :
        /\ r.table \in DOMAIN T
        /\ T[r.table].exists
        /\ r.column \in TableColumns(r.table)

\* write_pandas quotes the column names of the DataFrame (quote_identifiers
\* is left at True): the COPY statement compiles only if each is, letter
\* for letter and in its casing, a column of the table.
ColumnsResolve(columns, t) == columns \subseteq TableColumns(t)

\* --------------------------------------------- migrate_to_snowflake.py
\* The locals of a main() that has not started.
FreshRun ==
    /\ pc = "start" /\ i = 0 /\ df = <<>> /\ df_columns = {} /\ nrows = -1 /\ ret = "unset"
    /\ exc = FALSE /\ pg_conn = "none" /\ sf_conn = "none" /\ log = <<>>
    /\ before = -1

\* The locals of a verification that has not started.
VerifyNotStarted ==
    /\ vi = 0 /\ all_match = TRUE /\ row_match = TRUE
    /\ pg_df = NoMetrics /\ sf_df = NoMetrics /\ out = <<>>
    /\ verr = "none" /\ exit_status = -1

\* The choice "All" of a sidebar selectbox.
All == << "All" >>

\* A quotient of two integers, as the pair of them.
Ratio(num, den) == [ num |-> num, den |-> den ]

\* The locals of a dashboard run that has not started.
AppNotStarted ==
    /\ page = "none" /\ app_df = <<>> /\ filtered = <<>>
    /\ filters = [ category |-> All, product |-> All, country |-> All,
                   employee |-> All, date_range |-> <<>> ]
    /\ avg_days_ship = Ratio(0, 0) /\ kpi6 = NULL

Init ==
    /\ src \in SourceDBs
    /\ src_case \in Casings
    /\ \/ tgt \in { NoTables, EmptyTables } /\ views = NoViews
       \/ tgt \in { LoadedFrom(db) : db \in SourceDBs } /\ views = AllViews
    /\ FreshRun
    /\ runs = 1
    /\ VerifyNotStarted
    /\ vpc = "idle"
    /\ AppNotStarted
    /\ apc = "idle"

\* A faulty variant of Raise: a failure in migrate_table is swallowed and the
\* loop goes on to the next table.
RaiseSkipsTable ==
    IF pc \in { "read", "drop", "create", "write" }
    THEN exc' = exc /\ pc' = "returned"
    ELSE exc' = TRUE /\ pc' = "finally"

\* An exception leaves the try block of main(): the finally block runs.
Raise == exc' = TRUE /\ pc' = "finally"

\* pg_conn = psycopg2.connect(**PG_CONFIG)
PgConnect ==
    /\ pc = "start"
    /\ \/ pg_conn' = "open" /\ pc' = "sf_connect"
       \/ pg_conn' = "none" /\ pc' = "failed"
    /\ UNCHANGED << src, src_case, tgt, views, i, df, df_columns, nrows, ret, exc, sf_conn, log, runs, before >>
    /\ UNCHANGED << verVars, appVars >>

\* sf_conn = get_snowflake_connection(): outside the try block.
SfConnect ==
    /\ pc = "sf_connect"
    /\ \/ sf_conn' = "open" /\ pc' = "create_db"
       \/ sf_conn' = "none" /\ pc' = "failed"
    /\ UNCHANGED << src, src_case, tgt, views, i, df, df_columns, nrows, ret, exc, pg_conn, log, runs, before >>
    /\ UNCHANGED << verVars, appVars >>

\* create_snowflake_database(sf_conn), then the first turn of the loop.
CreateDatabase ==
    /\ pc = "create_db"
    /\ \/ i' = 1 /\ pc' = AfterTable(1) /\ UNCHANGED exc
       \/ Raise /\ UNCHANGED i
    /\ UNCHANGED << src, src_case, tgt, views, df, df_columns, nrows, ret, pg_conn, sf_conn, log, runs, before >>
    /\ UNCHANGED << verVars, appVars >>

\* migrate_table: df = pd.read_sql("SELECT * FROM <table>", pg_conn)
ReadSql ==
    /\ pc = "read"
    /\ before' = IF tgt[upper(tables[i])].exists
                  THEN Len(tgt[upper(tables[i])].rows) ELSE -1
    /\ \/ /\ df' = src[tables[i]]
          /\ df_columns' = SourceColumns(tables[i], src_case)
          /\ log' = Append(log, Stmt("SELECT", tables[i], TRUE))
          /\ pc' = StepAfter("read") /\ UNCHANGED exc
       \/ /\ log' = Append(log, Stmt("SELECT", tables[i], FALSE))
          /\ Raise /\ UNCHANGED << df, df_columns >>
    /\ UNCHANGED << src, src_case, tgt, views, i, nrows, ret, pg_conn, sf_conn, runs >>
    /\ UNCHANGED << verVars, appVars >>

\* migrate_table: DROP TABLE IF EXISTS <TABLE>
DropTable ==
    /\ pc = "drop"
    /\ \/ /\ tgt' = DropTableIfExists(tgt, upper(tables[i]))
          /\ log' = Append(log, Stmt("DROP", upper(tables[i]), TRUE))
          /\ pc' = StepAfter("drop") /\ UNCHANGED exc
       \/ /\ log' = Append(log, Stmt("DROP", upper(tables[i]), FALSE))
          /\ Raise /\ UNCHANGED tgt
    /\ UNCHANGED << src, src_case, views, i, df, df_columns, nrows, ret, pg_conn, sf_conn, runs, before >>
    /\ UNCHANGED << verVars, appVars >>

\* migrate_table: sf_cursor.execute(create_sql); fails on an existing table.
CreateTableStmt ==
    /\ pc = "create"
    /\ \/ /\ create_sql(tables[i]).table \in DOMAIN tgt
          /\ ~tgt[create_sql(tables[i]).table].exists
          /\ tgt' = CreateTable(tgt, create_sql(tables[i]).table)
          /\ log' = Append(log, Stmt("CREATE", create_sql(tables[i]).table,
                                     TRUE))
          /\ pc' = StepAfter("create") /\ UNCHANGED exc
       \/ /\ log' = Append(log, Stmt("CREATE", create_sql(tables[i]).table,
                                     FALSE))
          /\ Raise /\ UNCHANGED tgt
    /\ UNCHANGED << src, src_case, views, i, df, df_columns, nrows, ret, pg_conn, sf_conn, runs, before >>
    /\ UNCHANGED << verVars, appVars >>

\* migrate_table: write_pandas(sf_conn, df, <TABLE>, ...), the print of nrows,
\* the finally block and the return.  A failed load raises and leaves the
\* rows it had written.
WritePandas ==
    /\ pc = "write"
    /\ \/ /\ tgt[upper(tables[i])].exists
          /\ ColumnsResolve(df_columns, upper(tables[i]))
          /\ tgt' = AppendRows(tgt, upper(tables[i]), FrameToWrite(df),
                               Len(FrameToWrite(df)))
          /\ nrows' = Len(FrameToWrite(df))
          /\ log' = Append(log, Stmt("LOAD", upper(tables[i]), TRUE))
          /\ ret' = None
          /\ pc' = "returned" /\ UNCHANGED exc
       \/ /\ \E n \in 0..Len(df) :
                /\ n < Len(df) \/ n = 0
                /\ tgt' = IF tgt[upper(tables[i])].exists
                          THEN AppendRows(tgt, upper(tables[i]), df, n)
                          ELSE tgt
          /\ log' = Append(log, Stmt("LOAD", upper(tables[i]), FALSE))
          /\ Raise /\ UNCHANGED << nrows, ret >>
    /\ UNCHANGED << src, src_case, views, i, df, df_columns, pg_conn, sf_conn, runs, before >>
    /\ UNCHANGED << verVars, appVars >>

\* main(): migrate_table has returned; the next turn of the for loop.
NextTable ==
    /\ pc = "returned"
    /\ i' = i + 1
    /\ pc' = AfterTable(i + 1)
    /\ ret' = "unset"
    /\ UNCHANGED << src, src_case, tgt, views, df, df_columns, nrows, exc, pg_conn, sf_conn, log, runs, before >>
    /\ UNCHANGED << verVars, appVars >>

\* create_views: CREATE OR REPLACE VIEW ORDER_DETAILS_VIEW AS ...
CreateOrderDetailsView ==
    /\ pc = "view_od"
    /\ \/ /\ ViewCompiles(tgt, "ORDER_DETAILS_VIEW")
          /\ views' = [ views EXCEPT !["ORDER_DETAILS_VIEW"] = TRUE ]
          /\ log' = Append(log, Stmt("VIEW", "ORDER_DETAILS_VIEW", TRUE))
          /\ pc' = "view_product" /\ UNCHANGED exc
       \/ /\ log' = Append(log, Stmt("VIEW", "ORDER_DETAILS_VIEW", FALSE))
          /\ Raise /\ UNCHANGED views
    /\ UNCHANGED << src, src_case, tgt, i, df, df_columns, nrows, ret, pg_conn, sf_conn, runs, before >>
    /\ UNCHANGED << verVars, appVars >>

\* create_views: CREATE OR REPLACE VIEW PRODUCT_VIEW AS ..., then main()
\* prints its success line and falls into the finally block.
CreateProductView ==
    /\ pc = "view_product"
    /\ \/ /\ ViewCompiles(tgt, "PRODUCT_VIEW")
          /\ views' = [ views EXCEPT !["PRODUCT_VIEW"] = TRUE ]
          /\ log' = Append(log, Stmt("VIEW", "PRODUCT_VIEW", TRUE))
          /\ pc' = "finally" /\ UNCHANGED exc
       \/ /\ log' = Append(log, Stmt("VIEW", "PRODUCT_VIEW", FALSE))
          /\ Raise /\ UNCHANGED views
    /\ UNCHANGED << src, src_case, tgt, i, df, df_columns, nrows, ret, pg_conn, sf_conn, runs, before >>
    /\ UNCHANGED << verVars, appVars >>

\* main(): finally: pg_conn.close(); sf_conn.close()
Finally ==
    /\ pc = "finally"
    /\ pg_conn' = "closed"
    /\ sf_conn' = "closed"
    /\ pc' = IF exc THEN "failed" ELSE "done"
    /\ UNCHANGED << src, src_case, tgt, views, i, df, df_columns, nrows, ret, exc, log, runs, before >>
    /\ UNCHANGED << verVars, appVars >>

\* The script is run again on the same source.
RunAgain ==
    /\ pc \in { "done", "failed" }
    /\ runs < MaxRuns
    /\ runs' = runs + 1
    /\ pc' = "start" /\ i' = 0 /\ df' = <<>> /\ df_columns' = {} /\ nrows' = -1 /\ ret' = "unset"
    /\ exc' = FALSE /\ pg_conn' = "none" /\ sf_conn' = "none" /\ log' = <<>>
    /\ before' = -1
    /\ UNCHANGED << src, src_case, tgt, views >>
    /\ UNCHANGED << verVars, appVars >>

Next ==
    \/ PgConnect \/ SfConnect \/ CreateDatabase
    \/ ReadSql \/ DropTable \/ CreateTableStmt \/ WritePandas \/ NextTable
    \/ CreateOrderDetailsView \/ CreateProductView \/ Finally
    \/ RunAgain

Spec == Init /\ [][Next]_vars

\* ------------------------------------------------- verify_migration.py
\* The list verify_row_counts iterates.
rc_tables == << "categories", "customers", "employees", "suppliers",
                "shippers", "products", "orders", "order_details" >>

\* SELECT COUNT(*) FROM <table>
CountRows(rows) == Len(rows)

\* A faulty variant of AllMatch: the flag is overwritten by the last comparison.
AllMatchLast(flag, pg_count, sf_count) == pg_count = sf_count

\* if pg_count != sf_count: all_match = False
AllMatch(flag, pg_count, sf_count) ==
    IF pg_count # sf_count THEN FALSE ELSE flag

\* match = "OK" if pg_count == sf_count else "MISMATCH"
MatchTag(pg_count, sf_count) ==
    IF pg_count = sf_count THEN "OK" ELSE "MISMATCH"

\* The line printed for one table.
CountLine(name, pg_count, sf_count) ==
    [ kind |-> "count", name |-> name, pg |-> pg_count, sf |-> sf_count,
      tag |-> MatchTag(pg_count, sf_count) ]

RECURSIVE SumVals(_)
SumVals(vs) == IF vs = <<>> THEN 0 ELSE Val(Head(vs)) + SumVals(Tail(vs))

\* SQL SUM: over the non-null values, NULL if there is none.
SqlSum(vs) ==
    LET nn == SelectSeq(vs, LAMBDA v : ~IsNull(v))
    IN  IF nn = <<>> THEN NULL ELSE Some(SumVals(nn))

\* SQL COUNT(DISTINCT ...): the number of distinct non-null values.
SqlCountDistinct(vs) ==
    Some(Cardinality({ vs[j] : j \in { x \in 1..Len(vs) : ~IsNull(vs[x]) } }))

\* pg_query: the five aggregates over all of order_details.
PgMetrics(S) ==
    LET od == S["order_details"]
    IN  [ gross_revenue |->
            SqlSum([ j \in 1..Len(od) |->
                       MulFI(od[j].UNIT_PRICE, od[j].QUANTITY) ]),
          discount |->
            SqlSum([ j \in 1..Len(od) |->
                       MulFF(MulFI(od[j].UNIT_PRICE, od[j].QUANTITY),
                             od[j].DISCOUNT) ]),
          net_revenue |->
            SqlSum([ j \in 1..Len(od) |->
                       SubFF(MulFI(od[j].UNIT_PRICE, od[j].QUANTITY),
                             MulFF(MulFI(od[j].UNIT_PRICE, od[j].QUANTITY),
                                   od[j].DISCOUNT)) ]),
          orders |->
            SqlCountDistinct([ j \in 1..Len(od) |-> od[j].ORDER_ID ]),
          total_quantity |->
            SqlSum([ j \in 1..Len(od) |-> od[j].QUANTITY ]) ]

\* sf_query: the five aggregates over ORDER_DETAILS_VIEW.
SfMetrics(T) ==
    LET v == OrderDetailsView(T)
    IN  [ gross_revenue |-> SqlSum([ j \in 1..Len(v) |-> v[j].GROSS_REVENUE ]),
          discount |-> SqlSum([ j \in 1..Len(v) |-> v[j].DISCOUNT_AMOUNT ]),
          net_revenue |-> SqlSum([ j \in 1..Len(v) |-> v[j].NET_REVENUE ]),
          orders |-> SqlCountDistinct([ j \in 1..Len(v) |-> v[j].ORDER_ID ]),
          total_quantity |-> SqlSum([ j \in 1..Len(v) |-> v[j].QUANTITY ]) ]

\* The metrics printed with the format :.2f, in the order of their lines.
FloatMetrics == << "gross_revenue", "discount", "net_revenue" >>
\* The metrics printed as they are.
PlainMetrics == << "orders", "total_quantity" >>

\* format(x, ".2f") of a number: the nearest hundredth, ties to even.
Fmt2(x) ==
    LET q == x \div Cent
        r == x % Cent
    IN  IF 2 * r > Cent \/ (2 * r = Cent /\ q % 2 = 1) THEN q + 1 ELSE q

\* A line of verify_key_metrics: the two values as printed, and no tag.
FloatLine(name, pg, sf) ==
    [ kind |-> "metric", name |-> name, pg |-> Some(Fmt2(Val(pg))),
      sf |-> Some(Fmt2(Val(sf))), tag |-> None ]
PlainLine(name, pg, sf) ==
    [ kind |-> "metric", name |-> name, pg |-> pg, sf |-> sf, tag |-> None ]

\* format(None, ".2f") raises TypeError.
FormatRaises(name) == IsNull(pg_df[name]) \/ IsNull(sf_df[name])

\* An uncaught exception ends the process with status 1.
Crash(type) == verr' = type /\ exit_status' = 1 /\ vpc' = "exited"

\* verify_row_counts: the two connections.
RcConnect ==
    /\ vpc = "start"
    /\ \/ /\ vpc' = "rc_count" /\ vi' = 1 /\ all_match' = TRUE
          /\ UNCHANGED << verr, exit_status >>
       \/ Crash("ConnectionError") /\ UNCHANGED << vi, all_match >>
    /\ UNCHANGED << src, src_case, tgt, views, migVars, appVars, row_match, pg_df, sf_df, out >>

\* verify_row_counts: one turn of the loop: the two counts, the comparison
\* and the printed line.  A count on a missing table raises.
RcCount ==
    /\ vpc = "rc_count"
    /\ vi <= Len(rc_tables)
    /\ \/ /\ tgt[upper(rc_tables[vi])].exists
          /\ LET pg_count == CountRows(src[rc_tables[vi]])
                 sf_count == CountRows(tgt[upper(rc_tables[vi])].rows)
             IN  /\ all_match' = AllMatch(all_match, pg_count, sf_count)
                 /\ out' = Append(out, CountLine(rc_tables[vi], pg_count,
                                                 sf_count))
          /\ vi' = vi + 1
          /\ UNCHANGED << vpc, verr, exit_status >>
       \/ Crash("QueryError") /\ UNCHANGED << vi, all_match, out >>
    /\ UNCHANGED << src, src_case, tgt, views, migVars, appVars, row_match, pg_df, sf_df >>

\* verify_row_counts: the loop is over: close both connections and return
\* all_match to main().
RcReturn ==
    /\ vpc = "rc_count"
    /\ vi > Len(rc_tables)
    /\ row_match' = all_match
    /\ vpc' = "km_connect"
    /\ UNCHANGED << src, src_case, tgt, views, migVars, appVars, vi, all_match, pg_df, sf_df,
                    out, verr, exit_status >>

\* verify_key_metrics: the two connections.
KmConnect ==
    /\ vpc = "km_connect"
    /\ \/ vpc' = "km_pg" /\ UNCHANGED << verr, exit_status >>
       \/ Crash("ConnectionError")
    /\ UNCHANGED << src, src_case, tgt, views, migVars, appVars, vi, all_match, row_match,
                    pg_df, sf_df, out >>

\* verify_key_metrics: pg_df = pd.read_sql(pg_query, pg_conn); PostgreSQL
\* folds the unquoted column names of pg_query to lower case, so that the
\* query runs only on columns spelled in lower case.
KmReadPg ==
    /\ vpc = "km_pg"
    /\ \/ /\ src_case = "lower"
          /\ pg_df' = PgMetrics(src)
          /\ vpc' = "km_sf" /\ UNCHANGED << verr, exit_status >>
       \/ Crash("QueryError") /\ UNCHANGED pg_df
    /\ UNCHANGED << src, src_case, tgt, views, migVars, appVars, vi, all_match, row_match,
                    sf_df, out >>

\* verify_key_metrics: sf_df = pd.read_sql(sf_query, sf_conn); the query
\* fails if the view or a table under it is missing.
KmReadSf ==
    /\ vpc = "km_sf"
    /\ \/ /\ views["ORDER_DETAILS_VIEW"]
          /\ ViewCompiles(tgt, "ORDER_DETAILS_VIEW")
          /\ sf_df' = SfMetrics(tgt)
          /\ vpc' = "km_print" /\ UNCHANGED << verr, exit_status >>
       \/ Crash("QueryError") /\ UNCHANGED sf_df
    /\ UNCHANGED << src, src_case, tgt, views, migVars, appVars, vi, all_match, row_match,
                    pg_df, out >>

\* verify_key_metrics: the five print statements, the closes and the
\* return.  The first :.2f of a None raises TypeError; the lines before it
\* were printed.
KmPrint ==
    /\ vpc = "km_print"
    /\ \/ /\ \A j \in 1..Len(FloatMetrics) : ~FormatRaises(FloatMetrics[j])
          /\ out' = out
                \o [ j \in 1..Len(FloatMetrics) |->
                       FloatLine(FloatMetrics[j], pg_df[FloatMetrics[j]],
                                 sf_df[FloatMetrics[j]]) ]
                \o [ j \in 1..Len(PlainMetrics) |->
                       PlainLine(PlainMetrics[j], pg_df[PlainMetrics[j]],
                                 sf_df[PlainMetrics[j]]) ]
          /\ vpc' = "complete" /\ UNCHANGED << verr, exit_status >>
       \/ \E b \in 1..Len(FloatMetrics) :
             /\ FormatRaises(FloatMetrics[b])
             /\ \A j \in 1..(b - 1) : ~FormatRaises(FloatMetrics[j])
             /\ out' = out
                   \o [ j \in 1..(b - 1) |->
                          FloatLine(FloatMetrics[j], pg_df[FloatMetrics[j]],
                                    sf_df[FloatMetrics[j]]) ]
             /\ Crash("TypeError")
    /\ UNCHANGED << src, src_case, tgt, views, migVars, appVars, vi, all_match, row_match,
                    pg_df, sf_df >>

\* main(): the closing lines; the process ends with status 0 whatever
\* row_match is.
VerifyComplete ==
    /\ vpc = "complete"
    /\ out' = Append(out, [ kind |-> "summary", name |-> "row_match",
                            pg |-> 0, sf |-> 0,
                            tag |-> IF row_match THEN "OK" ELSE "WARNING" ])
    /\ exit_status' = 0
    /\ vpc' = "exited"
    /\ UNCHANGED << src, src_case, tgt, views, migVars, appVars, vi, all_match, row_match,
                    pg_df, sf_df, verr >>

\* The target as an aborted run left it: the tables up to number m of the
\* order freshly loaded from database fresh, the others as in stale.
MixedTarget(fresh, stale, m) ==
    [ t \in TargetNames |->
        LET name == CHOOSE n \in TableNames : upper(n) = t
        IN  IF TableIndex(name) <= m THEN Table(fresh[name]) ELSE stale[t] ]

VerifyTargets ==
    { MixedTarget(fresh, stale, m) :
        fresh \in SourceDBs,
        stale \in { NoTables } \cup { LoadedFrom(db) : db \in SourceDBs },
        m \in 0..Len(tables) }

InitVerify ==
    /\ src \in SourceDBs
    /\ src_case \in Casings
    /\ tgt \in VerifyTargets
    /\ views \in { NoViews, AllViews }
    /\ FreshRun
    /\ runs = 0
    /\ VerifyNotStarted
    /\ vpc = "start"
    /\ AppNotStarted
    /\ apc = "idle"

NextVerify ==
    \/ RcConnect \/ RcCount \/ RcReturn
    \/ KmConnect \/ KmReadPg \/ KmReadSf \/ KmPrint
    \/ VerifyComplete

SpecVerify == InitVerify /\ [][NextVerify]_vars

\* ------------------------------------------- create_views on any source
RECURSIVE SetToSeq(_)
SetToSeq(S) ==
    IF S = {} THEN <<>>
    ELSE LET x == CHOOSE y \in S : TRUE IN << x >> \o SetToSeq(S \ { x })

\* The order lines an enumerated source draws from: orders 1 and 2,
\* products 1 and 2; product 1 costs 10.00 at discount 0.10, product 2
\* costs 12.35 at discount 0.05; order 1 takes 5 of each, order 2 takes 3.
LinePool ==
    { OrderDetailRow(Some(o), Some(p),
                     Some(IF p = 1 THEN 10 * Scale ELSE 1235 * Cent),
                     Some(IF o = 1 THEN 5 ELSE 3),
                     Some(IF p = 1 THEN 10 * Cent ELSE 5 * Cent)) :
        o \in 1..2, p \in 1..2 }

\* The orders: order 1 or 2, its customer, employee and shipper all null,
\* all 1 or all 2, ordered on day 10 and shipped on day 13 or not yet.
OrderPool ==
    { OrderRow(o, ref, ref, ref, Some(10),
               IF ref = Some(1) THEN Some(13) ELSE NULL) :
        o \in 1..2, ref \in { NULL, Some(1), Some(2) } }

\* The products: product 1 in category 1 or in none, product 2 in category 2.
ProductPool == { ProductRow(1, Some(1)), ProductRow(1, NULL),
                 ProductRow(2, Some(2)) }

\* No two rows of S have the same value in column col (a primary key).
UniqueKey(S, col) == \A x, y \in S : x[col] = y[col] => x = y

\* The enumerated sources: at most MaxLines order lines, at most MaxOrders
\* orders, customer 1, employee 1, shipper 1 and category 1 present or not.
ViewSources ==
    { [ categories |-> SetToSeq(cat), customers |-> SetToSeq(c),
        employees |-> SetToSeq(e), suppliers |-> << SupplierRow(1) >>,
        shippers |-> SetToSeq(s), products |-> SetToSeq(p),
        orders |-> SetToSeq(o), order_details |-> SetToSeq(od) ] :
        cat \in SUBSET { CategoryRow(1) },
        c \in SUBSET { CustomerRow(1) },
        e \in SUBSET { EmployeeRow(1) },
        s \in SUBSET { ShipperRow(1) },
        p \in { x \in SUBSET ProductPool : UniqueKey(x, "PRODUCT_ID") },
        o \in { x \in SUBSET OrderPool :
                  UniqueKey(x, "ORDER_ID") /\ Cardinality(x) <= MaxOrders },
        od \in { x \in SUBSET LinePool : Cardinality(x) <= MaxLines } }

\* The statements of a run that loaded every table.
FullLog ==
    Flatten([ j \in 1..Len(tables) |->
        << Stmt("SELECT", tables[j], TRUE),
           Stmt("DROP", upper(tables[j]), TRUE),
           Stmt("CREATE", upper(tables[j]), TRUE),
           Stmt("LOAD", upper(tables[j]), TRUE) >> ])

\* main() of the migration after its for loop, on a first run over any of
\* the enumerated sources: every table is loaded, create_views is next.
InitView ==
    /\ src \in ViewSources
    /\ src_case = "upper"
    /\ tgt = LoadedFrom(src)
    /\ views = NoViews
    /\ pc = AfterTable(Len(tables) + 1) /\ i = Len(tables) + 1
    /\ df = src[tables[Len(tables)]] /\ nrows = Len(df) /\ ret = "unset"
    /\ df_columns = SourceColumns(tables[Len(tables)], src_case)
    /\ exc = FALSE /\ pg_conn = "open" /\ sf_conn = "open"
    /\ log = FullLog /\ runs = 1 /\ before = -1
    /\ VerifyNotStarted
    /\ vpc = "idle"
    /\ AppNotStarted
    /\ apc = "idle"

NextView == CreateOrderDetailsView \/ CreateProductView \/ Finally

SpecView == InitView /\ [][NextView]_vars

\* ------------------------------------------------- streamlit_app/app.py
\* df.columns = df.columns.str.lower() on a row of ORDER_DETAILS_VIEW.
LowerColumns(r) ==
    [ order_id |-> r.ORDER_ID, product_id |-> r.PRODUCT_ID,
      unit_price |-> r.UNIT_PRICE, quantity |-> r.QUANTITY,
      discount |-> r.DISCOUNT,
      order_date |-> r.ORDER_DATE, shipped_date |-> r.SHIPPED_DATE,
      customer_id |-> r.CUSTOMER_ID, employee_id |-> r.EMPLOYEE_ID,
      ship_via |-> r.SHIP_VIA,
      customer_company |-> r.CUSTOMER_COMPANY,
      customer_contact |-> r.CUSTOMER_CONTACT,
      customer_title |-> r.CUSTOMER_TITLE,
      customer_city |-> r.CUSTOMER_CITY,
      customer_country |-> r.CUSTOMER_COUNTRY,
      employee_last_name |-> r.EMPLOYEE_LAST_NAME,
      employee_name |-> r.EMPLOYEE_NAME,
      employee_title |-> r.EMPLOYEE_TITLE, hire_date |-> r.HIRE_DATE,
      employee_city |-> r.EMPLOYEE_CITY,
      shipping_company |-> r.SHIPPING_COMPANY,
      product_name |-> r.PRODUCT_NAME, category_id |-> r.CATEGORY_ID,
      category_name |-> r.CATEGORY_NAME,
      gross_revenue |-> r.GROSS_REVENUE,
      discount_amount |-> r.DISCOUNT_AMOUNT,
      net_revenue |-> r.NET_REVENUE, days_to_ship |-> r.DAYS_TO_SHIP ]

\* ["All"] + sorted(frame[col].dropna().unique().tolist())
Options(frame, col) ==
    { All } \cup { Val(frame[j][col]) :
                     j \in { x \in 1..Len(frame) : ~IsNull(frame[x][col]) } }

\* frame[frame[col] == value]: a null never equals the value.
WhereEq(frame, col, value) ==
    SelectSeq(frame, LAMBDA r : ~IsNull(r[col]) /\ Val(r[col]) = value)

\* The non-null order dates of the frame.
OrderDates(frame) ==
    { Val(frame[j].order_date) :
        j \in { x \in 1..Len(frame) : ~IsNull(frame[x].order_date) } }

Min(S) == CHOOSE x \in S : \A y \in S : x <= y
Max(S) == CHOOSE x \in S : \A y \in S : x >= y

\* What st.sidebar.date_input returns between min_date and max_date: the
\* start and the end of a range, or the start alone while the end is not
\* yet picked.
DateRanges(lo, hi) ==
    { << a >> : a \in lo..hi } \cup { << a, b >> : a \in lo..hi, b \in lo..hi }

\* apply_filters(df, filters)
apply_filters(frame, f) ==
    LET f1 == IF f.category # All
              THEN WhereEq(frame, "category_name", f.category) ELSE frame
        f2 == IF f.product # All
              THEN WhereEq(f1, "product_name", f.product) ELSE f1
        f3 == IF f.country # All
              THEN WhereEq(f2, "customer_country", f.country) ELSE f2
        f4 == IF f.employee # All
              THEN WhereEq(f3, "employee_name", f.employee) ELSE f3
    IN  IF Len(f.date_range) = 2
        THEN SelectSeq(f4, LAMBDA r :
                 /\ ~IsNull(r.order_date)
                 /\ Val(r.order_date) >= f.date_range[1]
                 /\ Val(r.order_date) <= f.date_range[2])
        ELSE f4

\* Series.isna().all(): true of the empty series.
IsNaAll(vs) == \A j \in 1..Len(vs) : IsNull(vs[j])

\* Series.mean(): the sum of the non-null values over their number.
Mean(vs) ==
    LET nn == SelectSeq(vs, LAMBDA v : ~IsNull(v))
    IN  Ratio(SumVals(nn), Len(nn))

\* filtered["days_to_ship"].mean()
\*     if not filtered["days_to_ship"].isna().all() else 0
AvgDaysShip(vs) == IF ~IsNaAll(vs) THEN Mean(vs) ELSE Ratio(0, 1)

\* f"{x:.2f}" of a quotient: the nearest hundredth, ties to even.
Fmt2Ratio(x) ==
    LET q == (x.num * 100) \div x.den
        r == (x.num * 100) % x.den
    IN  Some(IF 2 * r > x.den \/ (2 * r = x.den /\ q % 2 = 1)
             THEN q + 1 ELSE q)

\* main(): df = load_data(); a failure is shown and main() returns.
LoadData ==
    /\ apc = "load"
    /\ \/ /\ views["ORDER_DETAILS_VIEW"]
          /\ ViewCompiles(tgt, "ORDER_DETAILS_VIEW")
          /\ app_df' = LET v == OrderDetailsView(tgt)
                       IN  [ j \in 1..Len(v) |-> LowerColumns(v[j]) ]
          /\ apc' = "sidebar"
       \/ apc' = "error" /\ UNCHANGED app_df
    /\ UNCHANGED << src, src_case, tgt, views, migVars, verVars, page, filters,
                    filtered, avg_days_ship, kpi6 >>

\* main(): the page radio and render_sidebar_filters(df).  The date of NaT
\* raises ValueError when no row has an order date.
RenderSidebarFilters ==
    /\ apc = "sidebar"
    /\ \/ /\ OrderDates(app_df) # {}
          /\ \E pg \in { "Overview", "Category and Product", "Employees" } :
                page' = pg
          /\ \E cat \in Options(app_df, "category_name") :
             \E prod \in Options(IF cat # All
                                 THEN WhereEq(app_df, "category_name", cat)
                                 ELSE app_df, "product_name") :
             \E country \in Options(app_df, "customer_country") :
             \E emp \in Options(app_df, "employee_name") :
             \E dr \in DateRanges(Min(OrderDates(app_df)),
                                  Max(OrderDates(app_df))) :
                filters' = [ category |-> cat, product |-> prod,
                             country |-> country, employee |-> emp,
                             date_range |-> dr ]
          /\ apc' = "page"
       \/ /\ OrderDates(app_df) = {}
          /\ apc' = "crashed" /\ UNCHANGED << page, filters >>
    /\ UNCHANGED << src, src_case, tgt, views, migVars, verVars, app_df, filtered,
                    avg_days_ship, kpi6 >>

\* overview_page(df, filters): apply_filters, avg_days_ship and the metric
\* "Avg Days to Ship".
OverviewPage ==
    /\ apc = "page" /\ page = "Overview"
    /\ LET kept == apply_filters(app_df, filters)
           days == [ j \in 1..Len(kept) |-> kept[j].days_to_ship ]
       IN  /\ filtered' = kept
           /\ avg_days_ship' = AvgDaysShip(days)
           /\ kpi6' = Fmt2Ratio(AvgDaysShip(days))
    /\ apc' = "rendered"
    /\ UNCHANGED << src, src_case, tgt, views, migVars, verVars, page, app_df,
                    filters >>

\* category_product_page(df, filters) or employees_page(df, filters): no
\* average days to ship is shown.
OtherPage ==
    /\ apc = "page" /\ page # "Overview"
    /\ filtered' = apply_filters(app_df, filters)
    /\ apc' = "rendered"
    /\ UNCHANGED << src, src_case, tgt, views, migVars, verVars, page, app_df,
                    filters, avg_days_ship, kpi6 >>

\* The orders of a dashboard source: order o is of kind 1 (customer 1,
\* ordered on day 10, shipped on day 13), 2 (customer 1, ordered on day 10,
\* not shipped), 3 (customer 2, ordered on day 12, shipped on day 16) or
\* 4 (customer 2, no order date, shipped on day 13).
AppOrder(o, kind) ==
    CASE kind = 1 -> OrderRow(o, Some(1), Some(1), Some(1), Some(10), Some(13))
      [] kind = 2 -> OrderRow(o, Some(1), Some(1), Some(1), Some(10), NULL)
      [] kind = 3 -> OrderRow(o, Some(2), Some(1), Some(1), Some(12), Some(16))
      [] kind = 4 -> OrderRow(o, Some(2), Some(1), Some(1), NULL, Some(13))

\* The dashboard sources: at most MaxLines order lines of LinePool, at most
\* MaxOrders orders, two customers, categories and products, one employee.
AppSources ==
    { [ categories |-> << CategoryRow(1), CategoryRow(2) >>,
        customers |-> << CustomerRow(1), CustomerRow(2) >>,
        employees |-> << EmployeeRow(1) >>,
        suppliers |-> << SupplierRow(1) >>,
        shippers |-> << ShipperRow(1) >>,
        products |-> << ProductRow(1, Some(1)), ProductRow(2, Some(2)) >>,
        orders |-> SetToSeq(o), order_details |-> SetToSeq(od) ] :
        o \in { x \in SUBSET { AppOrder(k, kind) : k \in 1..2, kind \in 1..4 } :
                  UniqueKey(x, "ORDER_ID") /\ Cardinality(x) <= MaxOrders },
        od \in { x \in SUBSET LinePool : Cardinality(x) <= MaxLines } }

\* The dashboard is opened after a complete migration of the source.
InitApp ==
    /\ src \in AppSources
    /\ src_case = "upper"
    /\ tgt = LoadedFrom(src)
    /\ views = AllViews
    /\ FreshRun
    /\ runs = 0
    /\ VerifyNotStarted
    /\ vpc = "idle"
    /\ AppNotStarted
    /\ apc = "load"

NextApp == LoadData \/ RenderSidebarFilters \/ OverviewPage \/ OtherPage

SpecApp == InitApp /\ [][NextApp]_vars

\* --------------------------------- verify_key_metrics after a full load
\* verify_key_metrics is called on a target that holds every table of the
\* source row for row, with the views published, for any of the enumerated
\* sources and any casing of the source's column names.
InitMetrics ==
    /\ src \in ViewSources
    /\ src_case \in Casings
    /\ tgt = LoadedFrom(src)
    /\ views = AllViews
    /\ FreshRun
    /\ runs = 0
    /\ vi = Len(rc_tables) + 1 /\ all_match = TRUE /\ row_match = TRUE
    /\ pg_df = NoMetrics /\ sf_df = NoMetrics
    /\ out = [ j \in 1..Len(rc_tables) |->
                 CountLine(rc_tables[j], CountRows(src[rc_tables[j]]),
                           CountRows(tgt[upper(rc_tables[j])].rows)) ]
    /\ verr = "none" /\ exit_status = -1
    /\ vpc = "km_connect"
    /\ AppNotStarted
    /\ apc = "idle"

NextMetrics ==
    KmConnect \/ KmReadPg \/ KmReadSf \/ KmPrint \/ VerifyComplete

SpecMetrics == InitMetrics /\ [][NextMetrics]_vars

\* ================================================================ claims
\* The order of section 4.1 of the specification.
DependencyOrder == << "categories", "customers", "employees", "suppliers",
                      "shippers", "products", "orders", "order_details" >>

TableStmts == { "SELECT", "DROP", "CREATE", "LOAD" }

\* Table name was fully loaded by a statement before position j of the log.
LoadedBefore(name, j) ==
    \E a \in 1..(j - 1) : log[a] = Stmt("LOAD", upper(name), TRUE)

\* C1: in every run the tables are migrated one at a time in the order
\* categories, customers, employees, suppliers, shippers, products, orders,
\* order_details: the k-th table read is the k-th of that order, a table is
\* read only after every table before it in the order was fully loaded (so
\* order_details only after orders and products), and every statement on a
\* target table between two reads is on the table read last.
C1_TablesInDependencyOrder ==
    LET sel == SelectSeq(log, LAMBDA e : e.op = "SELECT")
    IN  /\ Len(sel) <= Len(DependencyOrder)
        /\ \A k \in 1..Len(sel) : sel[k].obj = DependencyOrder[k]
        /\ \A j \in 1..Len(log) :
             /\ log[j].op = "SELECT" =>
                  \A k \in 1..Len(DependencyOrder) :
                      DependencyOrder[k] = log[j].obj =>
                          \A b \in 1..(k - 1) :
                              LoadedBefore(DependencyOrder[b], j)
             /\ log[j].op \in { "DROP", "CREATE", "LOAD" } =>
                  \E a \in 1..(j - 1) :
                      /\ log[a] = Stmt("SELECT", log[a].obj, TRUE)
                      /\ upper(log[a].obj) = log[j].obj
                      /\ \A b \in (a + 1)..(j - 1) : log[b].op # "SELECT"

\* C1 witness: order_details, the last table, was read and loaded.
C1_Witness ==
    /\ pc = "returned" /\ i = 8
    /\ \E j \in 1..Len(log) : log[j] = Stmt("SELECT", "order_details", TRUE)
    /\ log[Len(log)] = Stmt("LOAD", "ORDER_DETAILS", TRUE)

\* C2: a view statement is executed only after all eight tables were loaded
\* without error in this run, and a run in which a table statement failed
\* holds no view statement.
C2_ViewsAfterAllTables ==
    /\ \A j \in 1..Len(log) :
          log[j].op = "VIEW" =>
              \A k \in 1..Len(DependencyOrder) :
                  LoadedBefore(DependencyOrder[k], j)
    /\ (\E a \in 1..Len(log) : log[a].op \in TableStmts /\ ~log[a].ok)
          => \A j \in 1..Len(log) : log[j].op # "VIEW"

\* C2 witness: both views were published and main() completed.
C2_Witness ==
    /\ pc = "done"
    /\ \E j \in 1..Len(log) : log[j] = Stmt("VIEW", "ORDER_DETAILS_VIEW", TRUE)
    /\ log[Len(log)] = Stmt("VIEW", "PRODUCT_VIEW", TRUE)

\* C3: when migrate_table has returned, the target table exists and holds
\* as many rows as were read, which is the row count of the source table,
\* whatever the target held before; the source never changes, so a second
\* call ends with the same row count.
C3_TargetCountEqualsSourceCount ==
    pc = "returned" =>
        /\ tgt[upper(tables[i])].exists
        /\ Len(tgt[upper(tables[i])].rows) = Len(df)
        /\ Len(df) = Len(src[tables[i]])
        /\ nrows = Len(df)

\* C3 witness: a second run reloads a table that already held as many rows.
C3_Witness ==
    /\ pc = "returned" /\ runs = 2
    /\ before = Len(df) /\ Len(df) > 0
    /\ Len(tgt[upper(tables[i])].rows) = before

\* C4 (the claim as stated): migrate_table returns a result whose status is
\* mismatch if the target row count differs from the extracted row count and
\* ok otherwise.
C4_ResultStatus ==
    pc = "returned" =>
        ret = IF Len(tgt[upper(tables[i])].rows) # Len(df)
              THEN "mismatch" ELSE "ok"

\* C5: when verify_row_counts has returned, it has printed one line for each
\* of the eight tables, in order, with the two row counts and the tag OK
\* exactly when they are equal, and it returned true exactly when all eight
\* pairs are equal: a mismatch did not end the loop.
C5_RowCountsAllCompared ==
    vpc = "km_connect" =>
        /\ row_match =
              (\A j \in 1..Len(DependencyOrder) :
                  Len(src[DependencyOrder[j]])
                      = Len(tgt[upper(DependencyOrder[j])].rows))
        /\ Len(out) = Len(DependencyOrder)
        /\ \A j \in 1..Len(DependencyOrder) :
              /\ out[j].kind = "count"
              /\ out[j].name = DependencyOrder[j]
              /\ out[j].pg = Len(src[DependencyOrder[j]])
              /\ out[j].sf = Len(tgt[upper(DependencyOrder[j])].rows)
              /\ out[j].tag = IF out[j].pg = out[j].sf THEN "OK" ELSE "MISMATCH"

\* C5 witness: the first table mismatched, the loop went on to the last
\* table, which matched, and verify_row_counts returned false.
C5_Witness ==
    /\ vpc = "km_connect" /\ ~row_match
    /\ Len(out) = 8
    /\ out[1].tag = "MISMATCH" /\ out[8].tag = "OK"

\* A null aggregate counts as zero (section 4.6 of the specification).
Zero(v) == IF IsNull(v) THEN 0 ELSE Val(v)

Abs(x) == IF x < 0 THEN -x ELSE x

\* The pass criterion of section 4.6: below 0.01 apart for the three revenue
\* sums, equal for the two integer metrics.
MetricPasses(name) ==
    IF \E j \in 1..Len(FloatMetrics) : FloatMetrics[j] = name
    THEN Abs(Zero(pg_df[name]) - Zero(sf_df[name])) < Cent
    ELSE Zero(pg_df[name]) = Zero(sf_df[name])

\* C6 (the claim as stated): every metric line carries a pass/fail flag,
\* pass exactly when the metric meets its criterion.
C6_MetricFlags ==
    \A j \in 1..Len(out) :
        out[j].kind = "metric" =>
            out[j].tag = IF MetricPasses(out[j].name) THEN "OK" ELSE "MISMATCH"

\* C7 (the claim as stated): the metric check never ends in the TypeError of
\* formatting a null aggregate, and when it has printed its lines a null
\* aggregate is shown as zero.
C7_NullAggregateIsZero ==
    /\ verr # "TypeError"
    /\ vpc = "complete" =>
          \A j \in 1..Len(out) :
              (out[j].kind = "metric" /\ IsNull(pg_df[out[j].name]))
                  => out[j].pg = Some(0)

\* C8 (the claim as stated): a verification that ran to completion with a
\* row-count or metric mismatch does not exit with status 0.
C8_ExitStatusReflectsMismatch ==
    (/\ vpc = "exited" /\ verr = "none"
     /\ \/ ~row_match
        \/ \E j \in 1..Len(out) :
              out[j].kind = "metric" /\ ~MetricPasses(out[j].name))
        => exit_status # 0

\* The order lines of the target whose ORDER_ID and PRODUCT_ID are those of
\* the view row r.
LinesOf(r) ==
    { a \in 1..Len(tgt["ORDER_DETAILS"].rows) :
        /\ tgt["ORDER_DETAILS"].rows[a].ORDER_ID = r.ORDER_ID
        /\ tgt["ORDER_DETAILS"].rows[a].PRODUCT_ID = r.PRODUCT_ID }

\* C9: every row of ORDER_DETAILS_VIEW carries the unit price, quantity and
\* discount of its order line, and GROSS_REVENUE = UNIT_PRICE * QUANTITY,
\* DISCOUNT_AMOUNT = UNIT_PRICE * QUANTITY * DISCOUNT and NET_REVENUE =
\* GROSS_REVENUE - DISCOUNT_AMOUNT, exactly; a line of 10.00, 5, 0.10 gives
\* 50.00, 5.00, 45.00.
C9_CalculatedColumns ==
    views["ORDER_DETAILS_VIEW"] =>
        LET v == OrderDetailsView(tgt)
        IN  \A j \in 1..Len(v) :
              /\ LinesOf(v[j]) # {}
              /\ \A a \in LinesOf(v[j]) :
                    LET line == tgt["ORDER_DETAILS"].rows[a]
                        up == Val(line.UNIT_PRICE)
                        q  == Val(line.QUANTITY)
                        d  == Val(line.DISCOUNT)
                    IN  /\ v[j].UNIT_PRICE = line.UNIT_PRICE
                        /\ v[j].QUANTITY = line.QUANTITY
                        /\ v[j].DISCOUNT = line.DISCOUNT
                        /\ Val(v[j].GROSS_REVENUE) = up * q
                        /\ Val(v[j].DISCOUNT_AMOUNT) * Scale = up * q * d
                        /\ Val(v[j].NET_REVENUE)
                              = Val(v[j].GROSS_REVENUE)
                                  - Val(v[j].DISCOUNT_AMOUNT)
                        /\ (up = 10 * Scale /\ q = 5 /\ d = 10 * Cent) =>
                              /\ Val(v[j].GROSS_REVENUE) = 50 * Scale
                              /\ Val(v[j].DISCOUNT_AMOUNT) = 5 * Scale
                              /\ Val(v[j].NET_REVENUE) = 45 * Scale

\* C9 witness: the view is published and holds the row of a line of 10.00,
\* 5, 0.10 and the row of a line of 12.35, 3, 0.05.
C9_Witness ==
    /\ views["ORDER_DETAILS_VIEW"]
    /\ LET v == OrderDetailsView(tgt)
       IN  /\ \E j \in 1..Len(v) :
                /\ v[j].UNIT_PRICE = Some(10 * Scale)
                /\ v[j].QUANTITY = Some(5)
                /\ v[j].NET_REVENUE = Some(45 * Scale)
           /\ \E j \in 1..Len(v) :
                /\ v[j].UNIT_PRICE = Some(1235 * Cent)
                /\ v[j].QUANTITY = Some(3)

\* Some row of the sequence rows has the value x in column col.
HasKey(rows, col, x) ==
    \E a \in 1..Len(rows) : SqlEq(rows[a][col], x)

\* C10: ORDER_DETAILS_VIEW holds a row for an order line exactly if the
\* line's ORDER_ID is that of an order in ORDERS (one row per line, the keys
\* being unique); a row whose customer, employee, shipper, product or
\* product category is missing has those columns null; PRODUCT_VIEW holds
\* one row per product, with null category columns if the product's category
\* is missing.
C10_JoinKinds ==
    /\ views["ORDER_DETAILS_VIEW"] =>
          LET v == OrderDetailsView(tgt)
              lines == tgt["ORDER_DETAILS"].rows
          IN  /\ \A a \in 1..Len(lines) :
                    (\E j \in 1..Len(v) :
                        /\ v[j].ORDER_ID = lines[a].ORDER_ID
                        /\ v[j].PRODUCT_ID = lines[a].PRODUCT_ID)
                    <=> HasKey(tgt["ORDERS"].rows, "ORDER_ID",
                               lines[a].ORDER_ID)
              /\ Len(v) = Cardinality({ a \in 1..Len(lines) :
                              HasKey(tgt["ORDERS"].rows, "ORDER_ID",
                                     lines[a].ORDER_ID) })
              /\ \A j \in 1..Len(v) :
                    /\ HasKey(tgt["CUSTOMERS"].rows, "CUSTOMER_ID",
                              v[j].CUSTOMER_ID)
                          <=> ~IsNull(v[j].CUSTOMER_COMPANY)
                    /\ HasKey(tgt["EMPLOYEES"].rows, "EMPLOYEE_ID",
                              v[j].EMPLOYEE_ID)
                          <=> ~IsNull(v[j].EMPLOYEE_LAST_NAME)
                    /\ HasKey(tgt["SHIPPERS"].rows, "SHIPPER_ID",
                              v[j].SHIP_VIA)
                          <=> ~IsNull(v[j].SHIPPING_COMPANY)
                    /\ HasKey(tgt["PRODUCTS"].rows, "PRODUCT_ID",
                              v[j].PRODUCT_ID)
                          <=> ~IsNull(v[j].PRODUCT_NAME)
                    /\ HasKey(tgt["CATEGORIES"].rows, "CATEGORY_ID",
                              v[j].CATEGORY_ID)
                          <=> ~IsNull(v[j].CATEGORY_NAME)
    /\ views["PRODUCT_VIEW"] =>
          LET pv == ProductView(tgt)
              products == tgt["PRODUCTS"].rows
          IN  /\ Len(pv) = Len(products)
              /\ \A a \in 1..Len(products) :
                    \E j \in 1..Len(pv) :
                        /\ pv[j].PRODUCT_ID = products[a].PRODUCT_ID
                        /\ pv[j].PRODUCT_NAME = products[a].PRODUCT_NAME
                        /\ pv[j].CATEGORY_ID = products[a].CATEGORY_ID
                        /\ HasKey(tgt["CATEGORIES"].rows, "CATEGORY_ID",
                                  products[a].CATEGORY_ID)
                              <=> ~IsNull(pv[j].CATEGORY_NAME)

\* C10 witness: both views are published; one order line has no order and
\* is not in the view, another is in the view with its customer and its
\* category missing, and a product without category is in PRODUCT_VIEW.
C10_Witness ==
    /\ views["ORDER_DETAILS_VIEW"] /\ views["PRODUCT_VIEW"]
    /\ \E a \in 1..Len(tgt["ORDER_DETAILS"].rows) :
          ~HasKey(tgt["ORDERS"].rows, "ORDER_ID",
                  tgt["ORDER_DETAILS"].rows[a].ORDER_ID)
    /\ LET v == OrderDetailsView(tgt)
       IN  \E j \in 1..Len(v) :
              /\ ~IsNull(v[j].CUSTOMER_ID) /\ IsNull(v[j].CUSTOMER_COMPANY)
              /\ ~IsNull(v[j].CATEGORY_ID) /\ IsNull(v[j].CATEGORY_NAME)
    /\ LET pv == ProductView(tgt)
       IN  \E j \in 1..Len(pv) :
              IsNull(pv[j].CATEGORY_ID) /\ IsNull(pv[j].CATEGORY_NAME)

\* The DAYS_TO_SHIP values of the rows the overview page shows.
ShownDays == [ j \in 1..Len(filtered) |-> filtered[j].days_to_ship ]

\* C11 (the claim as stated): a view row without SHIPPED_DATE or without
\* ORDER_DATE has DAYS_TO_SHIP null, and the average days to ship of the
\* rows shown is the sum of their non-null DAYS_TO_SHIP over the number of
\* rows with a non-null DAYS_TO_SHIP, also when that number is zero: no null
\* row is counted as a row of zero days.
C11_AverageSkipsNulls ==
    /\ \A j \in 1..Len(app_df) :
          (IsNull(app_df[j].shipped_date) \/ IsNull(app_df[j].order_date))
              => IsNull(app_df[j].days_to_ship)
    /\ (apc = "rendered" /\ page = "Overview") =>
          LET nn == SelectSeq(ShownDays, LAMBDA v : ~IsNull(v))
          IN  /\ avg_days_ship.num = SumVals(nn)
              /\ avg_days_ship.den = Len(nn)

\* C12: every column a view names (in its select list, its calculated
\* columns and its join predicates) is a column of the CREATE TABLE
\* statement of the table it is qualified with (the statements are fixed:
\* this is evaluated where main() starts), so that when create_views is
\* reached, after the eight tables were created, both view statements
\* compile.
C12_SchemaComplete ==
    /\ pc = "start" =>
          LET created == [ t \in { create_sql(n).table : n \in TableNames } |->
                             TableColumns(t) ]
          IN  \A v \in ViewNames : \A r \in ViewRefs(v) :
                 /\ r.table \in DOMAIN created
                 /\ r.column \in created[r.table]
    /\ pc = "view_od" => ViewCompiles(tgt, "ORDER_DETAILS_VIEW")
    /\ pc = "view_product" => ViewCompiles(tgt, "PRODUCT_VIEW")

\* C12 witness: ORDER_DETAILS_VIEW was compiled over the eight tables this
\* run created and PRODUCT_VIEW is next.
C12_Witness ==
    /\ pc = "view_product" /\ views["ORDER_DETAILS_VIEW"]
    /\ \A k \in 1..Len(tables) :
          \E j \in 1..Len(log) :
              log[j] = Stmt("CREATE", create_sql(tables[k]).table, TRUE)

\* str.upper() on a name.
UpperName(n) == Name(n.id, "upper")

\* C13 (the claim as stated): when migrate_table has dropped and created
\* the table and calls the bulk load, the table name of the three
\* statements is the same, the upper-cased source name, and the column
\* names of the rows it loads are the upper-cased column names of the
\* source, which are the columns of the created table.
C13_NamesUpperCased ==
    pc = "write" =>
        /\ log[Len(log)] = Stmt("CREATE", upper(tables[i]), TRUE)
        /\ log[Len(log) - 1] = Stmt("DROP", upper(tables[i]), TRUE)
        /\ df_columns = { UpperName(c) :
                            c \in SourceColumns(tables[i], src_case) }
        /\ df_columns = TableColumns(upper(tables[i]))

\* Statement number a of the log is a statement of migrate_table that failed.
FailedTableStmt(a) == log[a].op \in TableStmts /\ ~log[a].ok

\* The names table number k goes by in the log.
NamesOf(k) == { tables[k], upper(tables[k]) }

\* C14: when a statement of migrate_table has failed on table number i, it
\* is the last statement of the run: the exception is on its way out of
\* main(), no statement was executed on a later table, no view statement
\* was executed, table i was read once, and every table before i holds the
\* rows of the source.
C14_AbortOnFailure ==
    \A a \in 1..Len(log) :
        FailedTableStmt(a) =>
            /\ a = Len(log)
            /\ exc /\ pc \in { "finally", "failed" }
            /\ i \in 1..Len(tables) /\ log[a].obj \in NamesOf(i)
            /\ \A b \in 1..(i - 1) :
                  tgt[upper(tables[b])] = Table(src[tables[b]])
            /\ Cardinality({ j \in 1..Len(log) :
                                log[j].op = "SELECT"
                                /\ log[j].obj = tables[i] }) = 1
            /\ \A j \in 1..Len(log) :
                  /\ log[j].op # "VIEW"
                  /\ \A b \in (i + 1)..Len(tables) :
                        log[j].obj \notin NamesOf(b)

\* C14 witness: the load of a table after the first failed and main() has
\* exited; the tables before it are fresh, a table after it is absent.
C14_Witness ==
    /\ pc = "failed" /\ i >= 2 /\ i < Len(tables)
    /\ log[Len(log)] = Stmt("LOAD", upper(tables[i]), FALSE)
    /\ Len(tgt[upper(tables[i - 1])].rows) > 0
    /\ \E b \in (i + 1)..Len(tables) : ~tgt[upper(tables[b])].exists

\* C15: after a failed bulk load the table, dropped and created just
\* before, exists and holds a proper prefix of the rows read (none of them
\* if none was read): what the table held before the drop is gone, and it
\* stays so to the end of the run.
C15_NoRollback ==
    (Len(log) >= 3 /\ log[Len(log)].op = "LOAD" /\ ~log[Len(log)].ok) =>
        LET t == tgt[upper(tables[i])]
        IN  /\ log[Len(log)].obj = upper(tables[i])
            /\ log[Len(log) - 1] = Stmt("CREATE", upper(tables[i]), TRUE)
            /\ log[Len(log) - 2] = Stmt("DROP", upper(tables[i]), TRUE)
            /\ t.exists
            /\ Len(t.rows) <= Len(df)
            /\ t.rows = SubSeq(df, 1, Len(t.rows))
            /\ Len(t.rows) < Len(df) \/ df = <<>>

\* C15 witness: main() has exited after a failed load that left one of two
\* rows in a table that held two rows before.
C15_Witness ==
    /\ pc = "failed" /\ Len(log) >= 3
    /\ log[Len(log)].op = "LOAD" /\ ~log[Len(log)].ok
    /\ before = 2 /\ Len(df) = 2
    /\ Len(tgt[upper(tables[i])].rows) = 1

\* The statements of migrate_table come in the order extract, drop, create,
\* load, each after the success of the one before, on the same table.
StepsInOrder ==
    \A j \in 1..Len(log) :
        /\ log[j].op = "SELECT" =>
              (j > 1 => log[j - 1] = Stmt("LOAD", log[j - 1].obj, TRUE))
        /\ log[j].op = "DROP" =>
              (j > 1 /\ log[j - 1].op = "SELECT" /\ log[j - 1].ok
               /\ upper(log[j - 1].obj) = log[j].obj)
        /\ log[j].op = "CREATE" =>
              (j > 1 /\ log[j - 1] = Stmt("DROP", log[j].obj, TRUE))
        /\ log[j].op = "LOAD" =>
              (j > 1 /\ log[j - 1] = Stmt("CREATE", log[j].obj, TRUE))

\* A step in which the extraction fails leaves the target as it is.
FailedExtractKeepsTarget ==
    (pc = "read" /\ pc' # StepAfter("read")) => (tgt' = tgt /\ views' = views)

\* C16: within migrate_table the statements are executed in the order
\* extract, drop, create, load, and a failed extraction changes no target
\* table.
C16_StepOrder == []StepsInOrder /\ [][FailedExtractKeepsTarget]_vars

\* C16 witness: the extraction of a table failed and the target table of
\* that name still holds its rows.
C16_Witness ==
    /\ pc = "finally" /\ exc /\ i >= 1 /\ Len(log) >= 1
    /\ log[Len(log)] = Stmt("SELECT", tables[i], FALSE)
    /\ tgt[upper(tables[i])].exists
    /\ Len(tgt[upper(tables[i])].rows) > 0

\* C17 (the claim as stated): when main() has exited, normally or by an
\* exception, no connection it opened is still open.
C17_ConnectionsClosed ==
    pc \in { "done", "failed" } => (pg_conn # "open" /\ sf_conn # "open")

\* Every order line of the target has an order: its ORDER_ID is that of a
\* row of ORDERS.
EveryLineHasOrder ==
    \A a \in 1..Len(tgt["ORDER_DETAILS"].rows) :
        HasKey(tgt["ORDERS"].rows, "ORDER_ID",
               tgt["ORDER_DETAILS"].rows[a].ORDER_ID)

\* C18 (the claim as stated): on a target that holds every source table
\* row for row, the five aggregates read from ORDER_DETAILS_VIEW equal the
\* five aggregates computed over order_details, also when an order line has
\* no order.
C18_AggregatesEqual ==
    (vpc = "km_print" /\ tgt = LoadedFrom(src)) => sf_df = pg_df

\* C18 (amended): on a target that holds every source table row for row and
\* in which every order line has an order, the five aggregates read from
\* ORDER_DETAILS_VIEW equal the five aggregates computed over order_details.
C18_AggregatesEqualIfLinesHaveOrders ==
    (vpc = "km_print" /\ tgt = LoadedFrom(src) /\ EveryLineHasOrder)
        => sf_df = pg_df

\* C18 witness: both sets of aggregates were read over two order lines of
\* two orders, one of a customer that is missing and of a product without
\* category; the sums are not null.
C18_Witness ==
    /\ vpc = "km_print" /\ tgt = LoadedFrom(src) /\ EveryLineHasOrder
    /\ Len(src["order_details"]) = 2
    /\ pg_df.orders = Some(2)
    /\ ~IsNull(pg_df.discount) /\ Val(pg_df.discount) > 0
    /\ LET v == OrderDetailsView(tgt)
       IN  \E j \in 1..Len(v) :
              /\ ~IsNull(v[j].CUSTOMER_ID) /\ IsNull(v[j].CUSTOMER_COMPANY)
              /\ IsNull(v[j].CATEGORY_NAME)

====
